---- MODULE Spec2Model ----
(***************************************************************************)
(* Model of the multi-tenant point-of-sale backend (backend/server.py).    *)
(*                                                                         *)
(* The document store is the variable db, one field per collection.        *)
(* Object ids are the naturals 1, 2, ... in the order the store hands them *)
(* out; every id a request carries is a well-formed object id.  Money is   *)
(* counted in hundredths (paise), so round(x, 2) is rounding to an integer.*)
(* An Optional value is a sequence of length at most one: None is << >>.   *)
(* A str the code inspects (lower, strip) is a sequence of characters.     *)
(***************************************************************************)
EXTENDS Integers, Sequences, FiniteSets, TLC

VARIABLES
    db,         \* the collections: businesses, users, settings, products, sales, returns
    oids,       \* number of product ids the store has generated so far
    call,       \* the request handled last: [op, business_id, args]
    resp,       \* the response to it: [status, detail, body]
    reqs,       \* requests in flight (the interleaved specifications only)
    ncalls,     \* number of requests handled so far
    today,      \* the server clock's day, the number of the date strftime('%Y-%m-%d') gives
    log         \* the e-mails send_email has written to the application log

vars == <<db, oids, call, resp, reqs, ncalls, today, log>>

----------------------------------------------------------------------------
(* Bounds of the model                                                      *)

MaxProducts == 2
MaxSales == 2
MaxReturns == 1
MaxCalls == 5

----------------------------------------------------------------------------
(* Values                                                                   *)

None == << >>
Some(v) == <<v>>
IsNone(o) == Len(o) = 0
Get(o) == o[1]

\* Python str values the handlers inspect, as sequences of characters.
Str_cash == <<"c", "a", "s", "h">>
Str_Cash == <<"C", "a", "s", "h">>
Str_upi == <<"u", "p", "i">>
Str_credit == <<"c", "r", "e", "d", "i", "t">>
Str_Credit == <<"C", "r", "e", "d", "i", "t">>
Str_CREDIT == <<"C", "R", "E", "D", "I", "T">>
Str_empty == << >>
Str_blank == <<" ", " ">>
Str_phone == <<"9", "8">>
Str_padded == <<" ", "9", " ">>

\* str.lower() on one character.
LowerChar(c) ==
    CASE c = "A" -> "a" [] c = "C" -> "c" [] c = "D" -> "d" [] c = "E" -> "e"
      [] c = "H" -> "h" [] c = "I" -> "i" [] c = "P" -> "p" [] c = "R" -> "r"
      [] c = "S" -> "s" [] c = "T" -> "t" [] c = "U" -> "u"
      [] OTHER -> c

\* str.lower()
Lower(s) == [i \in 1..Len(s) |-> LowerChar(s[i])]

IsSpace(c) == c \in {" ", "\t", "\n"}

RECURSIVE LStrip(_)
LStrip(s) == IF Len(s) > 0 /\ IsSpace(Head(s)) THEN LStrip(Tail(s)) ELSE s

RECURSIVE RStrip(_)
RStrip(s) ==
    IF Len(s) > 0 /\ IsSpace(s[Len(s)]) THEN RStrip(SubSeq(s, 1, Len(s) - 1)) ELSE s

\* str.strip()
Strip(s) == RStrip(LStrip(s))

\* Python truthiness of an Optional[str]: None and "" are falsy.
TruthyStr(o) == ~IsNone(o) /\ Len(Get(o)) > 0

\* Python truthiness of an Optional number: None and 0 are falsy.
TruthyNum(o) == ~IsNone(o) /\ Get(o) # 0

RECURSIVE SumSeq(_)
SumSeq(s) == IF Len(s) = 0 THEN 0 ELSE Head(s) + SumSeq(Tail(s))

\* The function f with key k bound to v (insert or overwrite).
Put(f, k, v) == [x \in DOMAIN f \cup {k} |-> IF x = k THEN v ELSE f[x]]

\* The function f without key k.
Drop(f, k) == [x \in DOMAIN f \ {k} |-> f[x]]

EmptyColl == [x \in {} |-> 0]

----------------------------------------------------------------------------
(* Responses                                                                *)

\* A response: the status code, the detail of an error as a sequence of text
\* fragments, and the body as a sequence of documents.
Ok(body) == [status |-> 200, detail |-> << >>, body |-> body]
HTTPException(status_code, detail) ==
    [status |-> status_code, detail |-> <<detail>>, body |-> << >>]

StatusText(n) == CASE n = 400 -> "400" [] n = 404 -> "404" [] OTHER -> "500"

\* `except Exception as e: raise HTTPException(status_code=400, detail=str(e))`
\* around a handler body: an HTTPException raised inside the try block is an
\* Exception too, so it leaves the handler as a 400 whose detail is str(e),
\* the original status code followed by the original detail.
CatchAll(r) ==
    IF r.status = 200 THEN r
    ELSE [status |-> 400, detail |-> <<StatusText(r.status)>> \o r.detail, body |-> << >>]

\* `except HTTPException: raise` before the catch-all: the HTTPException
\* leaves the handler unchanged.
Reraise(r) == r

NoCall == [op |-> "none", business_id |-> 0, args |-> << >>]

----------------------------------------------------------------------------
(* Tenant and identity context                                              *)

\* get_current_user: the claims of a token signin issued for user document u.
get_current_user(u) ==
    [user_id |-> u._id, business_id |-> u.businessId, username |-> u.username]

\* The contexts a caller can present: one per user that can sign in.
Contexts == {get_current_user(db.users[i]) : i \in DOMAIN db.users}

----------------------------------------------------------------------------
(* The store after construction: every collection empty                     *)

EmptyDb ==
    [businesses |-> EmptyColl, users |-> EmptyColl, settings |-> EmptyColl,
     products |-> EmptyColl, sales |-> EmptyColl, returns |-> EmptyColl]

\* insert_one: the store generates the next id of the collection.
NextId(coll) == Cardinality(DOMAIN coll) + 1

\* find_one({"username": username}) on db.users
FindUser(username) == {i \in DOMAIN db.users : db.users[i].username = username}

\* find_one({"businessId": business_id}) on db.settings
FindSettings(business_id) ==
    {i \in DOMAIN db.settings : db.settings[i].businessId = business_id}

----------------------------------------------------------------------------
(* Auth endpoints                                                           *)

\* POST /auth/signup, the handler run without interruption.
signup(user) ==
    /\ call' = [op |-> "signup", business_id |-> 0, args |-> user]
    /\ IF FindUser(user.username) # {}
       THEN /\ resp' = HTTPException(400, "Username already exists")
            /\ UNCHANGED <<db, oids, reqs, today, log>>
       ELSE LET business_id == NextId(db.businesses)
                user_id == NextId(db.users)
                business_doc == [_id |-> business_id, name |-> user.businessName]
                user_doc == [_id |-> user_id, username |-> user.username,
                             businessId |-> business_id]
                settings_doc == [_id |-> NextId(db.settings), businessId |-> business_id,
                                 shopName |-> user.businessName, ownerName |-> "",
                                 upiId |-> "", setupCompleted |-> FALSE]
            IN  /\ db' = [db EXCEPT !.businesses = Put(@, business_id, business_doc),
                                    !.users = Put(@, user_id, user_doc),
                                    !.settings = Put(@, settings_doc._id, settings_doc)]
                /\ resp' = Ok(<<[userId |-> user_id, businessId |-> business_id]>>)
                /\ UNCHANGED <<oids, reqs, today, log>>

\* ADMIN_EMAIL, the operator's address (the default of the environment variable).
ADMIN_EMAIL == "nischal.vasista13@gmail.com"

\* send_email with the log lines left out.
LogEmailDropped(records, subject, body, to_email) == records

\* send_email: the message is built and written to the application log; the
\* SMTP delivery is commented out in the source, so the log is its only effect.
LogEmail(records, subject, body, to_email) ==
    Append(records, [subject |-> subject, body |-> body, to_email |-> to_email])

send_email(subject, body, to_email) == log' = LogEmail(log, subject, body, to_email)

\* The answer forgot_password gives on both of its paths.
ResetRequested == Ok(<<[message |-> "Password reset request sent to admin."]>>)

\* POST /auth/forgot-password (no token needed)
forgot_password(request) ==
    LET found == FindUser(request.username)
    IN  /\ call' = [op |-> "forgot_password", business_id |-> 0, args |-> request]
        /\ IF found = {}
           THEN /\ resp' = ResetRequested
                /\ UNCHANGED log
           ELSE LET user == db.users[CHOOSE i \in found : \A j \in found : i <= j]
                    subject == "Password Reset Request - POS App"
                    body == [username |-> request.username, user_id |-> user._id]
                IN  /\ send_email(subject, body, ADMIN_EMAIL)
                    /\ resp' = ResetRequested
        /\ UNCHANGED <<db, oids, reqs, today>>

----------------------------------------------------------------------------
(* Settings endpoints                                                       *)

\* POST /settings/setup
create_setup(ctx, settings) ==
    LET business_id == ctx.business_id
        existing == FindSettings(business_id)
    IN  /\ call' = [op |-> "create_setup", business_id |-> business_id, args |-> settings]
        /\ IF existing # {}
           THEN LET sid == CHOOSE i \in existing : \A j \in existing : i <= j
                    updated == [db.settings[sid] EXCEPT
                                   !.shopName = settings.shopName,
                                   !.ownerName = settings.ownerName,
                                   !.upiId = settings.upiId,
                                   !.setupCompleted = settings.setupCompleted,
                                   !.businessId = business_id]
                IN  /\ db' = [db EXCEPT !.settings[sid] = updated]
                    /\ resp' = Ok(<<updated>>)
           ELSE LET settings_dict == [_id |-> NextId(db.settings),
                                      businessId |-> business_id,
                                      shopName |-> settings.shopName,
                                      ownerName |-> settings.ownerName,
                                      upiId |-> settings.upiId,
                                      setupCompleted |-> settings.setupCompleted]
                IN  /\ db' = [db EXCEPT !.settings = Put(@, settings_dict._id, settings_dict)]
                    /\ resp' = Ok(<<settings_dict>>)
        /\ UNCHANGED <<oids, reqs, today, log>>

\* PUT /settings/{settings_id}
update_settings(ctx, settings_id, settings_update) ==
    LET business_id == ctx.business_id
        found == settings_id \in DOMAIN db.settings
                 /\ db.settings[settings_id].businessId = business_id
    IN  /\ call' = [op |-> "update_settings", business_id |-> business_id,
                    args |-> [settings_id |-> settings_id, settings |-> settings_update]]
        /\ IF ~found
           THEN /\ resp' = CatchAll(HTTPException(404, "Settings not found"))
                /\ UNCHANGED db
           ELSE LET updated == [db.settings[settings_id] EXCEPT
                                   !.shopName = settings_update.shopName,
                                   !.ownerName = settings_update.ownerName,
                                   !.upiId = settings_update.upiId]
                IN  /\ db' = [db EXCEPT !.settings[settings_id] = updated]
                    /\ resp' = Ok(<<updated>>)
        /\ UNCHANGED <<oids, reqs, today, log>>

----------------------------------------------------------------------------
(* Product endpoints                                                        *)

\* POST /products
create_product(ctx, product) ==
    LET business_id == ctx.business_id
        product_dict == [_id |-> oids + 1, businessId |-> business_id,
                         name |-> product.name, price |-> product.price,
                         stock |-> product.stock]
    IN  /\ oids < MaxProducts
        /\ call' = [op |-> "create_product", business_id |-> business_id, args |-> product]
        /\ db' = [db EXCEPT !.products = Put(@, product_dict._id, product_dict)]
        /\ oids' = oids + 1
        /\ resp' = Ok(<<product_dict>>)
        /\ UNCHANGED <<reqs, today, log>>

\* find({"businessId": business_id}) on db.products, in id order
RECURSIVE FindProducts(_, _)
FindProducts(ids, business_id) ==
    IF ids = {} THEN << >>
    ELSE LET i == CHOOSE x \in ids : \A y \in ids : x <= y
         IN  (IF db.products[i].businessId = business_id THEN <<db.products[i]>> ELSE << >>)
             \o FindProducts(ids \ {i}, business_id)

\* GET /products
get_products(ctx) ==
    /\ call' = [op |-> "get_products", business_id |-> ctx.business_id, args |-> << >>]
    /\ resp' = Ok(FindProducts(DOMAIN db.products, ctx.business_id))
    /\ UNCHANGED <<db, oids, reqs, today, log>>

\* find_one({"_id": ObjectId(product_id), "businessId": business_id}) on db.products
FindProduct(product_id, business_id) ==
    product_id \in DOMAIN db.products /\ db.products[product_id].businessId = business_id

\* GET /products/{product_id}
get_product(ctx, product_id) ==
    /\ call' = [op |-> "get_product", business_id |-> ctx.business_id, args |-> product_id]
    /\ resp' = CatchAll(IF ~FindProduct(product_id, ctx.business_id)
                        THEN HTTPException(404, "Product not found")
                        ELSE Ok(<<db.products[product_id]>>))
    /\ UNCHANGED <<db, oids, reqs, today, log>>

\* The $set of update_product: only the fields the request gives (not None).
ApplyProductUpdate(doc, product_update) ==
    [doc EXCEPT
        !.name = IF IsNone(product_update.name) THEN @ ELSE Get(product_update.name),
        !.price = IF IsNone(product_update.price) THEN @ ELSE Get(product_update.price),
        !.stock = IF IsNone(product_update.stock) THEN @ ELSE Get(product_update.stock)]

\* PUT /products/{product_id}
update_product(ctx, product_id, product_update) ==
    /\ call' = [op |-> "update_product", business_id |-> ctx.business_id,
                args |-> [product_id |-> product_id, update |-> product_update]]
    /\ IF ~FindProduct(product_id, ctx.business_id)
       THEN /\ resp' = CatchAll(HTTPException(404, "Product not found"))
            /\ UNCHANGED db
       ELSE LET updated == ApplyProductUpdate(db.products[product_id], product_update)
            IN  /\ db' = [db EXCEPT !.products[product_id] = updated]
                /\ resp' = Ok(<<updated>>)
    /\ UNCHANGED <<oids, reqs, today, log>>

\* DELETE /products/{product_id}
delete_product(ctx, product_id) ==
    /\ call' = [op |-> "delete_product", business_id |-> ctx.business_id, args |-> product_id]
    /\ IF ~FindProduct(product_id, ctx.business_id)
       THEN /\ resp' = CatchAll(HTTPException(404, "Product not found"))
            /\ UNCHANGED db
       ELSE /\ db' = [db EXCEPT !.products = Drop(@, product_id)]
            /\ resp' = Ok(<< >>)
    /\ UNCHANGED <<oids, reqs, today, log>>

----------------------------------------------------------------------------
(* Discount allocation (the loop of create_sale)                            *)

\* Round2 cutting the quotient off after the second decimal.
Round2Truncate(num, den, up) == num \div den

\* round(num / den, 2) for den > 0, the quotient in hundredths: the nearest
\* integer.  Python rounds the binary float it holds, so a quotient that is
\* exactly half way in decimal goes up or down with the float's last bits
\* (round(0.125, 2) = 0.12, round(0.025, 2) = 0.03); `up` is that outcome.
Round2(num, den, up) ==
    LET q == num \div den
        r == num % den
    IN  IF 2 * r < den THEN q
        ELSE IF 2 * r > den THEN q + 1
        ELSE IF up THEN q + 1 ELSE q

\* original_total = sum(item['price'] * item['quantity'] for item in items)
RECURSIVE OriginalTotal(_)
OriginalTotal(items) ==
    IF Len(items) = 0 THEN 0
    ELSE Head(items).price * Head(items).quantity + OriginalTotal(Tail(items))

\* AllocateItem recording the line's discount but not taking it off the
\* amount paid.
AllocateItemUndiscounted(item, original_total, discount_amount, tie) ==
    LET item_total == item.price * item.quantity
    IN  [item EXCEPT
            !.itemTotal = Some(item_total),
            !.discountAmount =
                IF original_total > 0 /\ discount_amount > 0
                THEN Some(Round2(item_total * discount_amount, original_total, tie.discount))
                ELSE Some(0),
            !.finalPaidAmount = Some(item_total)]

\* One pass of the loop body: item with itemTotal, discountAmount and
\* finalPaidAmount set.  tie = [discount, paid] are the outcomes of the two
\* round calls on a half-way value.
AllocateItem(item, original_total, discount_amount, tie) ==
    LET item_total == item.price * item.quantity
    IN  IF original_total > 0 /\ discount_amount > 0
        THEN [item EXCEPT
                 !.itemTotal = Some(item_total),
                 !.discountAmount =
                     Some(Round2(item_total * discount_amount, original_total, tie.discount)),
                 !.finalPaidAmount =
                     Some(Round2(item_total * original_total - item_total * discount_amount,
                                 original_total, tie.paid))]
        ELSE [item EXCEPT
                 !.itemTotal = Some(item_total),
                 !.discountAmount = Some(0),
                 !.finalPaidAmount = Some(item_total)]

\* `for item in items:` of create_sale
AllocateDiscount(items, original_total, discount_amount, ties) ==
    [i \in 1..Len(items) |->
        AllocateItem(items[i], original_total, discount_amount, ties[i])]

\* Whether num / den lies exactly half way between two hundredths.
HalfWay(num, den) == den > 0 /\ 2 * (num % den) = den

\* The outcomes the round calls of create_sale can have on the request: both
\* outcomes for a line whose quotient is half way, one otherwise.
Ties(sale) ==
    LET original_total == OriginalTotal(sale.items)
        discount_amount == IF TruthyNum(sale.discountAmount) THEN Get(sale.discountAmount) ELSE 0
        open(i) == HalfWay(sale.items[i].price * sale.items[i].quantity * discount_amount,
                           original_total)
    IN  {t \in [1..Len(sale.items) -> [discount : BOOLEAN, paid : BOOLEAN]] :
            \A i \in 1..Len(sale.items) : open(i) \/ (~t[i].discount /\ ~t[i].paid)}

----------------------------------------------------------------------------
(* Inventory                                                                *)

\* IncStock with $set in place of $inc.
IncStockOverwrite(products, business_id, product_id, delta) ==
    IF product_id \in DOMAIN products /\ products[product_id].businessId = business_id
    THEN [products EXCEPT ![product_id].stock = delta]
    ELSE products

\* IncStock with the businessId missing from the filter.
IncStockAnyBusiness(products, business_id, product_id, delta) ==
    IF product_id \in DOMAIN products
    THEN [products EXCEPT ![product_id].stock = @ + delta]
    ELSE products

\* UpdateOne({"_id": ObjectId(product_id), "businessId": business_id},
\*           {"$inc": {"stock": delta}}): one atomic update; it matches no
\* document when the id is absent or the product is another business's.
IncStock(products, business_id, product_id, delta) ==
    IF product_id \in DOMAIN products /\ products[product_id].businessId = business_id
    THEN [products EXCEPT ![product_id].stock = @ + delta]
    ELSE products

\* BulkWrite taking every quantity off the stock, whatever the sign.
RECURSIVE BulkWriteDecrement(_, _, _, _)
BulkWriteDecrement(products, business_id, items, sign) ==
    IF Len(items) = 0 THEN products
    ELSE BulkWriteDecrement(IncStock(products, business_id, Head(items).productId,
                                     -Head(items).quantity),
                            business_id, Tail(items), sign)

\* BulkWrite applying only the first update of the list.
BulkWriteFirstOnly(products, business_id, items, sign) ==
    IF Len(items) = 0 THEN products
    ELSE IncStock(products, business_id, Head(items).productId, sign * Head(items).quantity)

\* db.products.bulk_write(bulk_operations): the updates in list order, one per
\* item; sign is -1 for a sale and +1 for a return.
RECURSIVE BulkWrite(_, _, _, _)
BulkWrite(products, business_id, items, sign) ==
    IF Len(items) = 0 THEN products
    ELSE BulkWrite(IncStock(products, business_id, Head(items).productId,
                            sign * Head(items).quantity),
                   business_id, Tail(items), sign)

----------------------------------------------------------------------------
(* Sales endpoints                                                          *)

\* CreditWithoutPhone comparing the payment method as sent, without lower().
CreditWithoutPhoneCaseSensitive(sale) ==
    /\ sale.paymentMethod = Str_credit
    /\ (~TruthyStr(sale.customerPhone) \/ Len(Strip(Get(sale.customerPhone))) = 0)

\* The credit check of create_sale: true when the request is rejected.
CreditWithoutPhone(sale) ==
    /\ Lower(sale.paymentMethod) = Str_credit
    /\ (~TruthyStr(sale.customerPhone) \/ Len(Strip(Get(sale.customerPhone))) = 0)

\* sale_dict as create_sale inserts it.
SaleDict(sale, business_id, ties) ==
    LET original_total == OriginalTotal(sale.items)
        discount_amount == IF TruthyNum(sale.discountAmount) THEN Get(sale.discountAmount) ELSE 0
    IN  [businessId |-> business_id,
         date |-> today,
         items |-> AllocateDiscount(sale.items, original_total, discount_amount, ties),
         total |-> sale.total,
         paymentMethod |-> sale.paymentMethod,
         originalTotal |-> IF TruthyNum(sale.originalTotal) THEN sale.originalTotal
                           ELSE Some(original_total),
         discountAmount |-> sale.discountAmount,
         customerPhone |-> sale.customerPhone]

\* WithId handing out the first id again and again.
WithIdFirst(doc, id) == [x \in DOMAIN doc \cup {"_id"} |-> IF x = "_id" THEN 1 ELSE doc[x]]

\* insert_one on a collection: the document with its generated _id.
WithId(doc, id) == [x \in DOMAIN doc \cup {"_id"} |-> IF x = "_id" THEN id ELSE doc[x]]

\* POST /sales
create_sale(ctx, sale, ties) ==
    LET business_id == ctx.business_id
    IN  /\ call' = [op |-> "create_sale", business_id |-> business_id, args |-> sale]
        /\ IF CreditWithoutPhone(sale)
           THEN /\ resp' = HTTPException(400, "Customer phone number is required for credit sales")
                /\ UNCHANGED db
           ELSE LET sale_dict == WithId(SaleDict(sale, business_id, ties), NextId(db.sales))
                IN  /\ sale_dict._id <= MaxSales
                    /\ db' = [db EXCEPT
                                 !.products = BulkWrite(@, business_id, sale_dict.items, -1),
                                 !.sales = Put(@, sale_dict._id, sale_dict)]
                    /\ resp' = Ok(<<sale_dict>>)
        /\ UNCHANGED <<oids, reqs, today, log>>

\* FindSale with the businessId missing from the filter.
FindSaleAnyBusiness(sale_id, business_id) == sale_id \in DOMAIN db.sales

\* find_one({"_id": ObjectId(sale_id), "businessId": business_id}) on db.sales
FindSale(sale_id, business_id) ==
    sale_id \in DOMAIN db.sales /\ db.sales[sale_id].businessId = business_id

----------------------------------------------------------------------------
(* Returns endpoints                                                        *)

\* ReturnDict recording every return as a return of cash.
ReturnDictCash(return_data, business_id, original_sale) ==
    [businessId |-> business_id,
     date |-> today,
     originalSaleId |-> return_data.originalSaleId,
     originalPaymentMethod |-> Str_cash,
     items |-> return_data.items,
     returnTotal |-> return_data.returnTotal,
     reason |-> return_data.reason,
     type |-> return_data.type,
     exchangeSaleId |-> return_data.exchangeSaleId]

\* return_dict as create_return inserts it.
ReturnDict(return_data, business_id, original_sale) ==
    [businessId |-> business_id,
     date |-> today,
     originalSaleId |-> return_data.originalSaleId,
     originalPaymentMethod |-> original_sale.paymentMethod,
     items |-> return_data.items,
     returnTotal |-> return_data.returnTotal,
     reason |-> return_data.reason,
     type |-> return_data.type,
     exchangeSaleId |-> return_data.exchangeSaleId]

\* POST /returns
create_return(ctx, return_data) ==
    LET business_id == ctx.business_id
    IN  /\ call' = [op |-> "create_return", business_id |-> business_id, args |-> return_data]
        /\ IF ~FindSale(return_data.originalSaleId, business_id)
           THEN /\ resp' = Reraise(HTTPException(404, "Original sale not found"))
                /\ UNCHANGED db
           ELSE LET return_dict ==
                        WithId(ReturnDict(return_data, business_id,
                                          db.sales[return_data.originalSaleId]),
                               NextId(db.returns))
                IN  /\ return_dict._id <= MaxReturns
                    /\ db' = [db EXCEPT
                                 !.products = BulkWrite(@, business_id, return_dict.items, 1),
                                 !.returns = Put(@, return_dict._id, return_dict)]
                    /\ resp' = Ok(<<return_dict>>)
        /\ UNCHANGED <<oids, reqs, today, log>>

\* ReturnTotal counting a line at its finalPaidPrice when it carries one.
RECURSIVE ReturnTotalPaidPrice(_)
ReturnTotalPaidPrice(return_items) ==
    IF Len(return_items) = 0 THEN 0
    ELSE (IF IsNone(Head(return_items).finalPaidPrice) THEN Head(return_items).price
          ELSE Get(Head(return_items).finalPaidPrice)) * Head(return_items).quantity
         + ReturnTotalPaidPrice(Tail(return_items))

\* return_total = sum(item.price * item.quantity for item in return_items)
ReturnTotal(return_items) == OriginalTotal(return_items)

\* new_sale_dict as create_exchange inserts it: new_sale.dict() with the
\* business stamped on it.
ExchangeSaleDict(new_sale, business_id) ==
    [businessId |-> business_id,
     date |-> today,
     items |-> new_sale.items,
     total |-> new_sale.total,
     paymentMethod |-> new_sale.paymentMethod,
     originalTotal |-> new_sale.originalTotal,
     discountAmount |-> new_sale.discountAmount,
     customerPhone |-> new_sale.customerPhone]

\* return_dict as create_exchange inserts it.
ExchangeReturnDict(original_sale_id, return_items, business_id, original_sale, sale_id) ==
    [businessId |-> business_id,
     date |-> today,
     originalSaleId |-> original_sale_id,
     originalPaymentMethod |-> original_sale.paymentMethod,
     items |-> return_items,
     returnTotal |-> ReturnTotal(return_items),
     reason |-> "Exchange",
     type |-> "exchange",
     exchangeSaleId |-> Some(sale_id)]

\* POST /exchanges
create_exchange(ctx, original_sale_id, return_items, new_sale) ==
    LET business_id == ctx.business_id
    IN  /\ call' = [op |-> "create_exchange", business_id |-> business_id,
                    args |-> [original_sale_id |-> original_sale_id,
                              return_items |-> return_items, new_sale |-> new_sale]]
        /\ IF ~FindSale(original_sale_id, business_id)
           THEN /\ resp' = Reraise(HTTPException(404, "Original sale not found"))
                /\ UNCHANGED db
           ELSE LET new_sale_dict ==
                        WithId(ExchangeSaleDict(new_sale, business_id), NextId(db.sales))
                    return_dict ==
                        WithId(ExchangeReturnDict(original_sale_id, return_items, business_id,
                                                  db.sales[original_sale_id], new_sale_dict._id),
                               NextId(db.returns))
                    returned == BulkWrite(db.products, business_id, return_items, 1)
                IN  /\ new_sale_dict._id <= MaxSales
                    /\ return_dict._id <= MaxReturns
                    /\ db' = [db EXCEPT
                                 !.products = BulkWrite(returned, business_id,
                                                        new_sale_dict.items, -1),
                                 !.sales = Put(@, new_sale_dict._id, new_sale_dict),
                                 !.returns = Put(@, return_dict._id, return_dict)]
                    /\ resp' = Ok(<<[return |-> return_dict,
                                     newSale |-> new_sale_dict,
                                     returnTotal |-> return_dict.returnTotal,
                                     newSaleTotal |-> new_sale.total,
                                     priceDifference |->
                                         new_sale.total - return_dict.returnTotal]>>)
        /\ UNCHANGED <<oids, reqs, today, log>>

----------------------------------------------------------------------------
(* Reporting                                                                *)

\* to_list(100) on both aggregations of get_sales_summary.
ToListLength == 100

Str_other == <<"o", "t", "h", "e", "r">>
Str_card == <<"c", "a", "r", "d">>

\* Match leaving out the documents dated end_date.
MatchBeforeEnd(coll, business_id, start_date, end_date) ==
    {i \in DOMAIN coll :
        /\ coll[i].businessId = business_id
        /\ coll[i].date >= start_date
        /\ coll[i].date < end_date}

\* $match: the documents of coll of the business dated within
\* [start_date, end_date], both ends included.
Match(coll, business_id, start_date, end_date) ==
    {i \in DOMAIN coll :
        /\ coll[i].businessId = business_id
        /\ coll[i].date >= start_date
        /\ coll[i].date <= end_date}

\* {"$sum": "$<amount>"} over the documents ids of coll.
RECURSIVE SumField(_, _, _)
SumField(coll, ids, amount) ==
    IF ids = {} THEN 0
    ELSE LET i == CHOOSE j \in ids : TRUE
         IN  coll[i][amount] + SumField(coll, ids \ {i}, amount)

\* $group by the field key: one document per distinct value of it, as the
\* value is stored (so per spelling).
Group(coll, ids, key, amount) ==
    {[_id |-> k,
      total |-> SumField(coll, {i \in ids : coll[i][key] = k}, amount),
      count |-> Cardinality({i \in ids : coll[i][key] = k})] :
        k \in {coll[i][key] : i \in ids}}

\* The orders in which a cursor may hand out the documents of S.
Orderings(S) ==
    {f \in [1..Cardinality(S) -> S] : \A i, j \in 1..Cardinality(S) : f[i] = f[j] => i = j}

\* to_list(length)
ToList(docs, length) == SubSeq(docs, 1, IF Len(docs) < length THEN Len(docs) ELSE length)

\* aggregate(pipeline).to_list(100): $group promises no order.
Aggregate(coll, business_id, start_date, end_date, key, amount) ==
    {ToList(docs, ToListLength) :
        docs \in Orderings(Group(coll, Match(coll, business_id, start_date, end_date),
                                 key, amount))}

\* (item['_id'] or 'other').lower()
MethodOf(id) == IF Len(id) = 0 THEN Str_other ELSE Lower(id)

\* returns_by_method after the loop over returns_result.
RECURSIVE ReturnsByMethod(_, _)
ReturnsByMethod(returns_result, returns_by_method) ==
    IF Len(returns_result) = 0 THEN returns_by_method
    ELSE ReturnsByMethod(Tail(returns_result),
                         Put(returns_by_method, MethodOf(Head(returns_result)._id),
                             Head(returns_result).total))

\* total_returns after the loop over returns_result.
RECURSIVE TotalReturns(_)
TotalReturns(returns_result) ==
    IF Len(returns_result) = 0 THEN 0
    ELSE Head(returns_result).total + TotalReturns(Tail(returns_result))

\* summary before the loop over sales_result.
InitialSummary(total_returns) ==
    [grossSales |-> 0, totalReturns |-> total_returns, netSales |-> 0,
     cashTotal |-> 0, upiTotal |-> 0, cardTotal |-> 0, creditTotal |-> 0,
     otherTotal |-> 0, totalTransactions |-> 0, breakdown |-> EmptyColl]

\* One pass of the loop over sales_result.
ProcessGroup(summary, item, returns_by_method) ==
    LET payment_method == MethodOf(item._id)
        gross_total == item.total
        method_returns == IF payment_method \in DOMAIN returns_by_method
                          THEN returns_by_method[payment_method] ELSE 0
        net_total == gross_total - method_returns
    IN  [summary EXCEPT
            !.grossSales = @ + gross_total,
            !.totalTransactions = @ + item.count,
            !.cashTotal = IF payment_method = Str_cash THEN net_total ELSE @,
            !.upiTotal = IF payment_method = Str_upi THEN net_total ELSE @,
            !.cardTotal = IF payment_method = Str_card THEN net_total ELSE @,
            !.creditTotal = IF payment_method = Str_credit THEN net_total ELSE @,
            !.otherTotal = IF payment_method \in {Str_cash, Str_upi, Str_card, Str_credit}
                           THEN @ ELSE @ + net_total,
            !.breakdown = Put(@, payment_method,
                              [gross |-> gross_total, returns |-> method_returns,
                               net |-> net_total, count |-> item.count])]

\* summary after the loop over sales_result.
RECURSIVE ProcessGroups(_, _, _)
ProcessGroups(summary, sales_result, returns_by_method) ==
    IF Len(sales_result) = 0 THEN summary
    ELSE ProcessGroups(ProcessGroup(summary, Head(sales_result), returns_by_method),
                       Tail(sales_result), returns_by_method)

\* The summary get_sales_summary returns for the two aggregation results.
Summary(sales_result, returns_result) ==
    LET summary == ProcessGroups(InitialSummary(TotalReturns(returns_result)), sales_result,
                                 ReturnsByMethod(returns_result, EmptyColl))
        net_sales == summary.grossSales - summary.totalReturns
    IN  [x \in DOMAIN summary \cup {"totalSales"} |->
            IF x \in {"netSales", "totalSales"} THEN net_sales ELSE summary[x]]

\* GET /sales/summary
get_sales_summary(ctx, start_date, end_date) ==
    LET business_id == ctx.business_id
    IN  /\ call' = [op |-> "get_sales_summary", business_id |-> business_id,
                    args |-> [start_date |-> start_date, end_date |-> end_date]]
        /\ \E sales_result \in Aggregate(db.sales, business_id, start_date, end_date,
                                         "paymentMethod", "total"),
              returns_result \in Aggregate(db.returns, business_id, start_date, end_date,
                                           "originalPaymentMethod", "returnTotal") :
               resp' = CatchAll(Ok(<<Summary(sales_result, returns_result)>>))
        /\ UNCHANGED <<db, oids, reqs, today, log>>

\* The server clock passes midnight (UTC): datetime.now(timezone.utc) gives
\* the next day from here on.
midnight == today' = today + 1 /\ UNCHANGED <<db, oids, call, resp, reqs, log>>

----------------------------------------------------------------------------
(* Request bodies                                                           *)

Usernames == {"alice", "bob"}

\* UserCreate
UserInputs == {[username |-> u, businessName |-> "Shop"] : u \in Usernames}

\* Settings (setupCompleted is a field of the request model)
SettingsInputs ==
    {[shopName |-> "Bazaar", ownerName |-> "Asha", upiId |-> "", setupCompleted |-> TRUE]}

\* Product
ProductInputs == {[name |-> "shirt", price |-> 100, stock |-> 1]}

\* ProductUpdate
ProductUpdates == {[name |-> None, price |-> None, stock |-> Some(5)]}

\* Ids a request may name: of a document of either business, or of none.
ProductIds == 1..MaxProducts
SaleIds == 1..MaxSales
SettingsIds == 1..Cardinality(Usernames)

\* SaleItem as a client sends it
SaleItem(product_id, quantity, price) ==
    [productId |-> product_id, quantity |-> quantity, price |-> price,
     itemTotal |-> None, discountAmount |-> Some(0), finalPaidAmount |-> None]

\* Sale as a client sends it
Sale(items, total, payment_method, customer_phone, discount_amount) ==
    [items |-> items, total |-> total, paymentMethod |-> payment_method,
     originalTotal |-> None, discountAmount |-> discount_amount,
     customerPhone |-> customer_phone]

\* ReturnItem
ReturnItem(product_id, quantity, price) ==
    [productId |-> product_id, quantity |-> quantity, price |-> price,
     finalPaidPrice |-> None]

\* Return as a client sends it
Return(original_sale_id, items, return_total, type, exchange_sale_id) ==
    [originalSaleId |-> original_sale_id, items |-> items, returnTotal |-> return_total,
     reason |-> "", type |-> type, exchangeSaleId |-> exchange_sale_id]

\* One-line cash sales and returns of one unit, of any product id.
BasicSales == {Sale(<<SaleItem(p, 1, 100)>>, 100, Str_cash, None, Some(0)) : p \in ProductIds}
BasicReturnItems == {<<ReturnItem(p, 1, 100)>> : p \in ProductIds}
BasicReturns == {Return(s, items, 100, "return", None) : s \in SaleIds, items \in BasicReturnItems}

----------------------------------------------------------------------------
(* The API, one request at a time                                           *)

Init ==
    /\ db = EmptyDb
    /\ oids = 0
    /\ call = NoCall
    /\ resp = Ok(<< >>)
    /\ reqs = << >>
    /\ ncalls = 0
    /\ today = 1
    /\ log = << >>

\* A request handled within the bound on the length of a run.
Handle(A) == ncalls < MaxCalls /\ ncalls' = ncalls + 1 /\ A

Next ==
    \/ \E user \in UserInputs : Handle(signup(user))
    \/ \E ctx \in Contexts, settings \in SettingsInputs : Handle(create_setup(ctx, settings))
    \/ \E ctx \in Contexts, id \in SettingsIds, settings \in SettingsInputs :
           Handle(update_settings(ctx, id, settings))
    \/ \E ctx \in Contexts, product \in ProductInputs : Handle(create_product(ctx, product))
    \/ \E ctx \in Contexts : Handle(get_products(ctx))
    \/ \E ctx \in Contexts, id \in ProductIds : Handle(get_product(ctx, id))
    \/ \E ctx \in Contexts, id \in ProductIds, upd \in ProductUpdates :
           Handle(update_product(ctx, id, upd))
    \/ \E ctx \in Contexts, id \in ProductIds : Handle(delete_product(ctx, id))
    \/ \E ctx \in Contexts, sale \in BasicSales : \E ties \in Ties(sale) :
           Handle(create_sale(ctx, sale, ties))
    \/ \E ctx \in Contexts, ret \in BasicReturns : Handle(create_return(ctx, ret))
    \/ \E ctx \in Contexts, id \in SaleIds, items \in BasicReturnItems, sale \in BasicSales :
           Handle(create_exchange(ctx, id, items, sale))

Spec == Init /\ [][Next]_vars

----------------------------------------------------------------------------
(* Settlement: sales, returns and exchanges of two shops with one product   *)
(* each                                                                     *)

\* The store after signup of alice and of bob and one create_product by each.
CatalogDb ==
    [businesses |-> <<[_id |-> 1, name |-> "Shop"], [_id |-> 2, name |-> "Shop"]>>,
     users |-> <<[_id |-> 1, username |-> "alice", businessId |-> 1],
                 [_id |-> 2, username |-> "bob", businessId |-> 2]>>,
     settings |-> <<[_id |-> 1, businessId |-> 1, shopName |-> "Shop", ownerName |-> "",
                     upiId |-> "", setupCompleted |-> FALSE],
                    [_id |-> 2, businessId |-> 2, shopName |-> "Shop", ownerName |-> "",
                     upiId |-> "", setupCompleted |-> FALSE]>>,
     products |-> <<[_id |-> 1, businessId |-> 1, name |-> "shirt", price |-> 100, stock |-> 1],
                    [_id |-> 2, businessId |-> 2, name |-> "shirt", price |-> 100, stock |-> 1]>>,
     sales |-> EmptyColl,
     returns |-> EmptyColl]

CatalogInit ==
    /\ db = CatalogDb
    /\ oids = 2
    /\ call = NoCall
    /\ resp = Ok(<< >>)
    /\ reqs = << >>
    /\ ncalls = 0
    /\ today = 1
    /\ log = << >>

\* Product ids named by settlement requests: 1 and 2 exist, 3 does not.
Line(p) == SaleItem(p, 1, 100)
ItemLists ==
    {<<Line(1)>>, <<SaleItem(1, 2, 100)>>, <<Line(1), Line(1)>>, <<Line(1), Line(2)>>,
     <<Line(3)>>}

\* Sales that differ in what they sell, what they claim as total and discount.
SettleSales ==
    {Sale(items, OriginalTotal(items), Str_cash, None, Some(0)) : items \in ItemLists}
    \cup {Sale(<<Line(1)>>, 5, Str_cash, None, Some(0)),
          Sale(<<Line(1), Line(2)>>, 175, Str_cash, None, Some(25))}

\* The new sale of an exchange: a cash sale, a credit sale without a phone
\* and a discounted sale.
ExchangeSales ==
    {Sale(<<Line(1)>>, 100, Str_cash, None, Some(0)),
     Sale(<<Line(1), Line(2)>>, 200, Str_credit, None, Some(0)),
     Sale(<<SaleItem(1, 2, 100)>>, 150, Str_cash, None, Some(50))}

\* A request handled, the length of the run not bounded.
Serve(A) == A /\ UNCHANGED ncalls

SettleNext ==
    \/ \E ctx \in Contexts, sale \in SettleSales : \E ties \in Ties(sale) :
           Serve(create_sale(ctx, sale, ties))
    \/ \E ctx \in Contexts, id \in SaleIds, sale \in ExchangeSales :
           Serve(create_exchange(ctx, id, <<ReturnItem(1, 1, 100)>>, sale))

SettleSpec == CatalogInit /\ [][SettleNext]_vars

----------------------------------------------------------------------------
(* Credit sales: every payment method with every customer phone             *)

PaymentMethods == {Str_cash, Str_credit, Str_CREDIT}
Phones == {None, Some(Str_empty), Some(Str_blank), Some(Str_phone)}

CreditSales == {Sale(<<Line(1)>>, 100, m, ph, Some(0)) : m \in PaymentMethods, ph \in Phones}

CreditNext ==
    \/ \E ctx \in Contexts, sale \in CreditSales : \E ties \in Ties(sale) :
           Serve(create_sale(ctx, sale, ties))
    \/ \E ctx \in Contexts, id \in SaleIds, sale \in ExchangeSales :
           Serve(create_exchange(ctx, id, <<ReturnItem(1, 1, 100)>>, sale))

CreditSpec == CatalogInit /\ [][CreditNext]_vars

----------------------------------------------------------------------------
(* Returns and exchanges against the sales of the two shops                 *)

ReturnItemLists ==
    {<<ReturnItem(1, 1, 100)>>, <<ReturnItem(1, 1, 100), ReturnItem(1, 1, 100)>>,
     <<ReturnItem(1, 1, 100), ReturnItem(2, 1, 100)>>, <<ReturnItem(3, 1, 100)>>}

ReturnInputs ==
    {Return(s, items, ReturnTotal(items), "return", None) :
        s \in SaleIds, items \in ReturnItemLists}

ReturnNext ==
    \/ \E ctx \in Contexts, sale \in BasicSales : \E ties \in Ties(sale) :
           Serve(create_sale(ctx, sale, ties))
    \/ \E ctx \in Contexts, ret \in ReturnInputs : Serve(create_return(ctx, ret))
    \/ \E ctx \in Contexts, id \in SaleIds, items \in ReturnItemLists, sale \in BasicSales :
           Serve(create_exchange(ctx, id, items, sale))

ReturnSpec == CatalogInit /\ [][ReturnNext]_vars

----------------------------------------------------------------------------
(* Discount allocation: one sale of a cart of up to MaxLines lines          *)

MaxLines == 3

CartLines == {SaleItem(1, q, price) : q \in {1, 2}, price \in {0, 33, 100, 125}}
Carts == UNION {[1..n -> CartLines] : n \in 1..MaxLines}
Discounts == {None, Some(1), Some(25), Some(50)}

\* What a client that computes its total itself sends.
CartSale(items, discount_amount) ==
    Sale(items,
         OriginalTotal(items) - (IF IsNone(discount_amount) THEN 0 ELSE Get(discount_amount)),
         Str_cash, None, discount_amount)

DiscountSales == {CartSale(items, d) : items \in Carts, d \in Discounts}

DiscountNext ==
    /\ DOMAIN db.sales = {}
    /\ \E ctx \in Contexts, sale \in DiscountSales : \E ties \in Ties(sale) :
           Serve(create_sale(ctx, sale, ties))

DiscountSpec == CatalogInit /\ [][DiscountNext]_vars

----------------------------------------------------------------------------
(* Requests in flight: the handlers interleaved at their awaits             *)

MaxRequests == 3

\* An update that moves the stock by one unit whatever the quantity.
UpdateOneUnit(product_id, delta) ==
    [kind |-> "update_one", product_id |-> product_id,
     delta |-> IF delta < 0 THEN 0 - 1 ELSE 1, doc |-> << >>]

\* What a handler still has to await, in order.  bulk_write sends the
\* updates of its list to the store one after the other; the store applies
\* each of them atomically, and none of them with its neighbours.
UpdateOne(product_id, delta) ==
    [kind |-> "update_one", product_id |-> product_id, delta |-> delta, doc |-> << >>]
InsertOne(coll, doc) ==
    [kind |-> coll, product_id |-> 0, delta |-> 0, doc |-> <<doc>>]

\* bulk_operations left empty.
BulkOperationsNone(items, sign) == << >>

\* bulk_operations: one UpdateOne per item.
BulkOperations(items, sign) ==
    [k \in 1..Len(items) |-> UpdateOne(items[k].productId, sign * items[k].quantity)]

\* A request that has passed its checks.  sold and returned are the items
\* of its body, kept for the record; overlapped records that another request
\* was in flight when this one began; raised holds the awaits the handler
\* never completed because the store raised at the first of them.
Request(op, business_id, todo, sold, returned) ==
    [op |-> op, business_id |-> business_id, todo |-> todo,
     sold |-> sold, returned |-> returned,
     overlapped |-> \E j \in DOMAIN reqs : reqs[j].todo # << >>,
     raised |-> << >>]

InFlight == {i \in DOMAIN reqs : reqs[i].todo # << >>}

\* POST /sales up to its first await.
begin_create_sale(ctx, sale, ties) ==
    LET business_id == ctx.business_id
        sale_dict == SaleDict(sale, business_id, ties)
    IN  /\ Len(reqs) < MaxRequests
        /\ call' = [op |-> "create_sale", business_id |-> business_id, args |-> sale]
        /\ IF CreditWithoutPhone(sale)
           THEN /\ resp' = HTTPException(400, "Customer phone number is required for credit sales")
                /\ UNCHANGED reqs
           ELSE /\ reqs' = Append(reqs,
                               Request("create_sale", business_id,
                                       BulkOperations(sale_dict.items, -1)
                                           \o <<InsertOne("sales", sale_dict)>>,
                                       sale.items, << >>))
                /\ UNCHANGED resp
        /\ UNCHANGED <<db, oids, ncalls, today, log>>

\* POST /returns up to and including its find_one.
begin_create_return(ctx, return_data) ==
    LET business_id == ctx.business_id
    IN  /\ Len(reqs) < MaxRequests
        /\ call' = [op |-> "create_return", business_id |-> business_id, args |-> return_data]
        /\ IF ~FindSale(return_data.originalSaleId, business_id)
           THEN /\ resp' = Reraise(HTTPException(404, "Original sale not found"))
                /\ UNCHANGED reqs
           ELSE LET return_dict == ReturnDict(return_data, business_id,
                                              db.sales[return_data.originalSaleId])
                IN  /\ reqs' = Append(reqs,
                                   Request("create_return", business_id,
                                           BulkOperations(return_dict.items, 1)
                                               \o <<InsertOne("returns", return_dict)>>,
                                           << >>, return_data.items))
                    /\ UNCHANGED resp
        /\ UNCHANGED <<db, oids, ncalls, today, log>>

\* POST /exchanges up to and including its find_one; the day does not change
\* while a request is in flight.
begin_create_exchange(ctx, original_sale_id, return_items, new_sale) ==
    LET business_id == ctx.business_id
    IN  /\ Len(reqs) < MaxRequests
        /\ call' = [op |-> "create_exchange", business_id |-> business_id,
                    args |-> [original_sale_id |-> original_sale_id,
                              return_items |-> return_items, new_sale |-> new_sale]]
        /\ IF ~FindSale(original_sale_id, business_id)
           THEN /\ resp' = Reraise(HTTPException(404, "Original sale not found"))
                /\ UNCHANGED reqs
           ELSE LET new_sale_dict == ExchangeSaleDict(new_sale, business_id)
                    return_dict == ExchangeReturnDict(original_sale_id, return_items,
                                                      business_id, db.sales[original_sale_id], 0)
                IN  /\ reqs' = Append(reqs,
                                   Request("create_exchange", business_id,
                                           BulkOperations(return_items, 1)
                                               \o BulkOperations(new_sale_dict.items, -1)
                                               \o <<InsertOne("sales", new_sale_dict),
                                                    InsertOne("returns", return_dict)>>,
                                           new_sale.items, return_items))
                    /\ UNCHANGED resp
        /\ UNCHANGED <<db, oids, ncalls, today, log>>

\* The store applies the next update of request i's bulk_write.
update_one(i) ==
    /\ i \in InFlight
    /\ Head(reqs[i].todo).kind = "update_one"
    /\ db' = [db EXCEPT !.products = IncStock(@, reqs[i].business_id,
                                               Head(reqs[i].todo).product_id,
                                               Head(reqs[i].todo).delta)]
    /\ reqs' = [reqs EXCEPT ![i].todo = Tail(@)]
    /\ UNCHANGED <<oids, call, resp, ncalls, today, log>>

\* LinkReturn leaving the return record as it was built.
LinkReturnNever(step, sale_id) == step

\* return_dict['exchangeSaleId'] = new_sale_dict['_id']
LinkReturn(step, sale_id) ==
    IF step.kind = "returns"
    THEN [step EXCEPT !.doc = <<[Head(@) EXCEPT !.exchangeSaleId = Some(sale_id)]>>]
    ELSE step

\* db.sales.insert_one of request i; create_sale responds with the sale.
insert_sale(i) ==
    /\ i \in InFlight
    /\ Head(reqs[i].todo).kind = "sales"
    /\ LET sale_dict == WithId(Head(Head(reqs[i].todo).doc), NextId(db.sales))
           rest == Tail(reqs[i].todo)
       IN  /\ db' = [db EXCEPT !.sales = Put(@, sale_dict._id, sale_dict)]
           /\ reqs' = [reqs EXCEPT
                          ![i].todo = [k \in 1..Len(rest) |-> LinkReturn(rest[k], sale_dict._id)]]
           /\ resp' = IF rest = << >> THEN Ok(<<sale_dict>>) ELSE resp
    /\ UNCHANGED <<oids, call, ncalls, today, log>>

\* db.returns.insert_one of request i, the last await of both handlers.
insert_return(i) ==
    /\ i \in InFlight
    /\ Head(reqs[i].todo).kind = "returns"
    /\ LET return_dict == WithId(Head(Head(reqs[i].todo).doc), NextId(db.returns))
       IN  /\ db' = [db EXCEPT !.returns = Put(@, return_dict._id, return_dict)]
           /\ resp' = Ok(<<return_dict>>)
    /\ reqs' = [reqs EXCEPT ![i].todo = Tail(@)]
    /\ UNCHANGED <<oids, call, ncalls, today, log>>

\* The store raises at the await create_sale has reached (an update of its
\* bulk_write, which is ordered and so stops there, or the insert_one).  The
\* handler has no try block: the exception ends it, the caller gets a 500 and
\* the awaits that were left are never made.
store_error(i) ==
    /\ i \in InFlight
    /\ reqs[i].op = "create_sale"
    /\ reqs' = [reqs EXCEPT ![i].todo = << >>, ![i].raised = reqs[i].todo]
    /\ resp' = [status |-> 500, detail |-> <<"Internal Server Error">>, body |-> << >>]
    /\ UNCHANGED <<db, oids, call, ncalls, today, log>>

\* Requests of the first shop on its one product, and a sale that also names
\* the other shop's.
InFlightSales ==
    {Sale(<<Line(1)>>, 100, Str_cash, None, Some(0)),
     Sale(<<SaleItem(1, 2, 100), Line(2)>>, 300, Str_cash, None, Some(0))}
InFlightReturns == {Return(1, <<ReturnItem(1, 1, 100)>>, 100, "return", None)}

InFlightNext ==
    \/ \E ctx \in Contexts, sale \in InFlightSales : \E ties \in Ties(sale) :
           begin_create_sale(ctx, sale, ties)
    \/ \E ctx \in Contexts, ret \in InFlightReturns : begin_create_return(ctx, ret)
    \/ \E ctx \in Contexts, sale \in InFlightSales :
           begin_create_exchange(ctx, 1, <<ReturnItem(1, 1, 100)>>, sale)
    \/ \E i \in DOMAIN reqs : update_one(i)
    \/ \E i \in DOMAIN reqs : insert_sale(i)
    \/ \E i \in DOMAIN reqs : insert_return(i)

InFlightSpec == CatalogInit /\ [][InFlightNext]_vars

\* Sales of both shops during which the store may raise.
StoreErrorNext ==
    \/ \E ctx \in Contexts, sale \in InFlightSales : \E ties \in Ties(sale) :
           begin_create_sale(ctx, sale, ties)
    \/ \E i \in DOMAIN reqs : update_one(i)
    \/ \E i \in DOMAIN reqs : insert_sale(i)
    \/ \E i \in DOMAIN reqs : store_error(i)

StoreErrorSpec == CatalogInit /\ [][StoreErrorNext]_vars

----------------------------------------------------------------------------
(* Return bodies: what a client may put in type and exchangeSaleId          *)

ReturnTypes == {"return", "exchange"}
ReturnBodies ==
    {Return(s, <<ReturnItem(1, 1, 100)>>, 100, type, ex) :
        s \in SaleIds, type \in ReturnTypes, ex \in {None, Some(1), Some(2)}}

ReturnBodyNext ==
    \/ \E ctx \in Contexts, sale \in BasicSales : \E ties \in Ties(sale) :
           Serve(create_sale(ctx, sale, ties))
    \/ \E ctx \in Contexts, ret \in ReturnBodies : Serve(create_return(ctx, ret))
    \/ \E ctx \in Contexts, id \in SaleIds, sale \in BasicSales :
           Serve(create_exchange(ctx, id, <<ReturnItem(1, 1, 100)>>, sale))

ReturnBodySpec == CatalogInit /\ [][ReturnBodyNext]_vars

----------------------------------------------------------------------------
(* Exchanges of several units, some of them bought at a discount            *)

ExchangeReturnItems ==
    {<<ReturnItem(1, 1, 100)>>,
     <<ReturnItem(1, 2, 100)>>,
     <<[ReturnItem(1, 2, 100) EXCEPT !.finalPaidPrice = Some(80)], ReturnItem(2, 1, 33)>>}

ExchangeNext ==
    \/ \E ctx \in Contexts, sale \in BasicSales : \E ties \in Ties(sale) :
           Serve(create_sale(ctx, sale, ties))
    \/ \E ctx \in Contexts, id \in SaleIds, items \in ExchangeReturnItems,
          sale \in ExchangeSales :
           Serve(create_exchange(ctx, id, items, sale))

ExchangeSpec == CatalogInit /\ [][ExchangeNext]_vars

----------------------------------------------------------------------------
(* Reporting over two days: sales paid in several ways, then returned       *)

MaxDays == 2

Days == 1..MaxDays

\* One line of product 1 paid 1.00 or 2.00 by cash spelt two ways, by UPI
\* or by a method the summary does not know.
SummaryMethods == {Str_cash, Str_Cash, Str_upi, Str_empty}
SummarySales ==
    {Sale(<<Line(1)>>, total, m, None, Some(0)) : total \in {100, 200}, m \in SummaryMethods}
SummaryReturns == {Return(s, <<ReturnItem(1, 1, 100)>>, 50, "return", None) : s \in SaleIds}

SummaryNext ==
    \/ \E ctx \in Contexts, sale \in SummarySales : \E ties \in Ties(sale) :
           Serve(create_sale(ctx, sale, ties))
    \/ \E ctx \in Contexts, ret \in SummaryReturns : Serve(create_return(ctx, ret))
    \/ \E ctx \in Contexts, id \in SaleIds :
           Serve(create_exchange(ctx, id, <<ReturnItem(1, 1, 100)>>,
                                 Sale(<<Line(1)>>, 100, Str_upi, None, Some(0))))
    \/ \E ctx \in Contexts, start_date, end_date \in Days :
           Serve(get_sales_summary(ctx, start_date, end_date))
    \/ today < MaxDays /\ Serve(midnight)

SummarySpec == CatalogInit /\ [][SummaryNext]_vars

----------------------------------------------------------------------------
(* Signups in flight: signup interleaved at its awaits                      *)

\* A signup that found its username free: the collections it still has to
\* insert into, and the ids the store has given it so far (0: none yet).
SignupRequest(user) ==
    [op |-> "signup", user |-> user, todo |-> <<"businesses", "users", "settings">>,
     business_id |-> 0, user_id |-> 0]

\* POST /auth/signup up to and including its find_one.
begin_signup(user) ==
    /\ Len(reqs) < MaxRequests
    /\ call' = [op |-> "signup", business_id |-> 0, args |-> user]
    /\ IF FindUser(user.username) # {}
       THEN /\ resp' = HTTPException(400, "Username already exists")
            /\ UNCHANGED reqs
       ELSE /\ reqs' = Append(reqs, SignupRequest(user))
            /\ UNCHANGED resp
    /\ UNCHANGED <<db, oids, ncalls, today, log>>

\* await db.businesses.insert_one(business_doc)
insert_business(i) ==
    /\ i \in InFlight
    /\ Head(reqs[i].todo) = "businesses"
    /\ LET business_id == NextId(db.businesses)
       IN  /\ db' = [db EXCEPT !.businesses =
                        Put(@, business_id,
                            [_id |-> business_id, name |-> reqs[i].user.businessName])]
           /\ reqs' = [reqs EXCEPT ![i].todo = Tail(@), ![i].business_id = business_id]
    /\ UNCHANGED <<oids, call, resp, ncalls, today, log>>

\* await db.users.insert_one(user_doc)
insert_user(i) ==
    /\ i \in InFlight
    /\ Head(reqs[i].todo) = "users"
    /\ LET user_id == NextId(db.users)
       IN  /\ db' = [db EXCEPT !.users =
                        Put(@, user_id,
                            [_id |-> user_id, username |-> reqs[i].user.username,
                             businessId |-> reqs[i].business_id])]
           /\ reqs' = [reqs EXCEPT ![i].todo = Tail(@), ![i].user_id = user_id]
    /\ UNCHANGED <<oids, call, resp, ncalls, today, log>>

\* await db.settings.insert_one(settings_doc), and the response.
insert_settings(i) ==
    /\ i \in InFlight
    /\ Head(reqs[i].todo) = "settings"
    /\ LET settings_id == NextId(db.settings)
       IN  db' = [db EXCEPT !.settings =
                     Put(@, settings_id,
                         [_id |-> settings_id, businessId |-> reqs[i].business_id,
                          shopName |-> reqs[i].user.businessName, ownerName |-> "",
                          upiId |-> "", setupCompleted |-> FALSE])]
    /\ reqs' = [reqs EXCEPT ![i].todo = Tail(@)]
    /\ resp' = Ok(<<[userId |-> reqs[i].user_id, businessId |-> reqs[i].business_id]>>)
    /\ UNCHANGED <<oids, call, ncalls, today, log>>

SignupNext ==
    \/ \E user \in UserInputs : begin_signup(user)
    \/ \E i \in DOMAIN reqs : insert_business(i)
    \/ \E i \in DOMAIN reqs : insert_user(i)
    \/ \E i \in DOMAIN reqs : insert_settings(i)

SignupSpec == Init /\ [][SignupNext]_vars

----------------------------------------------------------------------------
(* Shop setup: settings bodies with either value of setupCompleted          *)

SetupInputs ==
    {[shopName |-> n, ownerName |-> "Asha", upiId |-> "", setupCompleted |-> c] :
        n \in {"Bazaar", "Mart"}, c \in BOOLEAN}

SetupNext ==
    \/ \E user \in UserInputs : Serve(signup(user))
    \/ \E ctx \in Contexts, settings \in SetupInputs : Serve(create_setup(ctx, settings))
    \/ \E ctx \in Contexts, id \in SettingsIds, settings \in SetupInputs :
           Serve(update_settings(ctx, id, settings))

SetupSpec == Init /\ [][SetupNext]_vars

----------------------------------------------------------------------------
(* Password reset requests: signups and forgot_password calls for           *)
(* usernames that exist and for one that never signs up.                    *)

MaxEmails == 3

ForgotRequests == {[username |-> u] : u \in Usernames \cup {"carol"}}

ForgotNext ==
    \/ \E user \in UserInputs : Serve(signup(user))
    \/ /\ Len(log) < MaxEmails
       /\ \E request \in ForgotRequests : Serve(forgot_password(request))

ForgotSpec == Init /\ [][ForgotNext]_vars

----------------------------------------------------------------------------
(* Tenant isolation                                                         *)

\* The documents of collection coll that carry businessId b.
OwnedBy(coll, b) == {coll[i] : i \in {j \in DOMAIN coll : coll[j].businessId = b}}

\* Every Product, Sale, Return and Settings row of business b in store d.
TenantRows(d, b) ==
    [products |-> OwnedBy(d.products, b), sales |-> OwnedBy(d.sales, b),
     returns |-> OwnedBy(d.returns, b), settings |-> OwnedBy(d.settings, b)]

NotFound(r) == r.status = 404

\* C1: listing products under a business's context returns only that
\* business's products, and fetching by id a product owned by another
\* business yields NotFound (404), as for an id that does not exist.
C1_TenantIsolationOnReads ==
    /\ call.op = "get_products" =>
           \A i \in DOMAIN resp.body : resp.body[i].businessId = call.business_id
    /\ (call.op = "get_product" /\ call.args \in DOMAIN db.products
           /\ db.products[call.args].businessId # call.business_id) =>
           NotFound(resp)

\* The operations C2 names, all run under a business's context.
TenantMutations ==
    {"create_product", "update_product", "delete_product", "create_sale",
     "create_return", "create_exchange", "create_setup", "update_settings"}

\* C2: a request handled under business A's context leaves every Product,
\* Sale, Return and Settings row of every other business unchanged, whatever
\* ids it names.
C2_CrossTenantFrame ==
    [][\A b \in DOMAIN db.businesses :
          (call'.op \in TenantMutations /\ call'.business_id # b) =>
              TenantRows(db', b) = TenantRows(db, b)]_vars

\* An exchange has succeeded whose returned line names a product of another
\* business.
C2_Witness ==
    /\ call.op = "create_exchange"
    /\ resp.status = 200
    /\ \E i \in DOMAIN call.args.return_items :
          LET p == call.args.return_items[i].productId
          IN  p \in DOMAIN db.products /\ db.products[p].businessId # call.business_id

----------------------------------------------------------------------------
(* Credit sales need a phone                                                *)

\* paymentMethod equals "credit" ignoring case.
IsCredit(payment_method) == Lower(payment_method) = Str_credit

\* customerPhone is absent, empty or only whitespace.
BlankPhone(customer_phone) ==
    IsNone(customer_phone)
    \/ \A i \in 1..Len(Get(customer_phone)) : IsSpace(Get(customer_phone)[i])

MentionsPhone(detail) == detail = <<"Customer phone number is required for credit sales">>

\* The sale document a create_sale request has just inserted.
Inserted(coll_before, coll_after) == DOMAIN coll_after \ DOMAIN coll_before

\* C3: create_sale of a credit sale (any letter case) whose customerPhone is
\* absent, empty or blank fails with 400 and a detail about the phone, and
\* changes no stock and persists no Sale; any other create_sale succeeds and
\* persists one Sale of the caller's business with the request's payment
\* method and phone.
C3_CreditSaleNeedsPhone ==
    [][call'.op = "create_sale" =>
          IF IsCredit(call'.args.paymentMethod) /\ BlankPhone(call'.args.customerPhone)
          THEN /\ resp'.status = 400
               /\ MentionsPhone(resp'.detail)
               /\ db'.products = db.products
               /\ db'.sales = db.sales
          ELSE /\ resp'.status = 200
               /\ Cardinality(Inserted(db.sales, db'.sales)) = 1
               /\ \A i \in Inserted(db.sales, db'.sales) :
                     /\ db'.sales[i].businessId = call'.business_id
                     /\ db'.sales[i].paymentMethod = call'.args.paymentMethod
                     /\ db'.sales[i].customerPhone = call'.args.customerPhone
               /\ \A i \in DOMAIN db.sales : db'.sales[i] = db.sales[i]]_vars

\* A credit sale in capitals with a blank phone has been rejected, after a
\* credit sale with a phone was persisted.
C3_Witness ==
    /\ call.op = "create_sale"
    /\ call.args.paymentMethod = Str_CREDIT
    /\ call.args.customerPhone = Some(Str_blank)
    /\ resp.status = 400
    /\ \E i \in DOMAIN db.sales :
          IsCredit(db.sales[i].paymentMethod) /\ ~BlankPhone(db.sales[i].customerPhone)

\* C4: every persisted Sale paid by credit (any letter case) has a
\* customerPhone that is present and not blank, whichever operation
\* persisted it.
C4_CreditSalesHavePhone ==
    \A i \in DOMAIN db.sales :
        IsCredit(db.sales[i].paymentMethod) => ~BlankPhone(db.sales[i].customerPhone)

----------------------------------------------------------------------------
(* Stock settlement                                                         *)

\* The sum of the quantities of the lines of items that name product p.
RECURSIVE SumQty(_, _)
SumQty(items, p) ==
    IF Len(items) = 0 THEN 0
    ELSE (IF Head(items).productId = p THEN Head(items).quantity ELSE 0)
         + SumQty(Tail(items), p)

\* C5: a create_sale that is not rejected for its phone succeeds whatever the
\* stock, and leaves each product P of the caller's business with
\* stock(P) = stock_before(P) - the quantities of the lines naming P, which
\* may be negative.
C5_SaleDecrementsStock ==
    [][(call'.op = "create_sale"
        /\ ~(IsCredit(call'.args.paymentMethod) /\ BlankPhone(call'.args.customerPhone))) =>
          /\ resp'.status = 200
          /\ DOMAIN db'.products = DOMAIN db.products
          /\ \A p \in DOMAIN db.products :
                db.products[p].businessId = call'.business_id =>
                    db'.products[p].stock =
                        db.products[p].stock - SumQty(call'.args.items, p)]_vars

\* A sale of two units of a product with one in stock has succeeded and left
\* its stock negative.
C5_Witness ==
    /\ call.op = "create_sale"
    /\ resp.status = 200
    /\ \E p \in DOMAIN db.products :
          /\ db.products[p].businessId = call.business_id
          /\ SumQty(call.args.items, p) = 2
          /\ db.products[p].stock < 0

\* C6: a successful create_return raises the stock of each product of the
\* caller's business by the quantities of the returned lines naming it, and a
\* successful create_exchange by those quantities less the quantities of the
\* new sale's lines naming it; no other product's stock changes.
C6_ReturnIncrementsStock ==
    [][(call'.op \in {"create_return", "create_exchange"} /\ resp'.status = 200) =>
          LET returned == IF call'.op = "create_return" THEN call'.args.items
                          ELSE call'.args.return_items
              sold == IF call'.op = "create_return" THEN << >>
                      ELSE call'.args.new_sale.items
          IN  /\ DOMAIN db'.products = DOMAIN db.products
              /\ \A p \in DOMAIN db.products :
                    db'.products[p].stock =
                        IF db.products[p].businessId = call'.business_id
                        THEN db.products[p].stock + SumQty(returned, p) - SumQty(sold, p)
                        ELSE db.products[p].stock]_vars

\* A return of two lines of the same product has raised its stock by two, and
\* so above what the shop started with.
C6_Witness ==
    /\ call.op = "create_return"
    /\ resp.status = 200
    /\ \E p \in DOMAIN db.products :
          /\ db.products[p].businessId = call.business_id
          /\ SumQty(call.args.items, p) = 2
          /\ db.products[p].stock = 2

\* The sum of finalPaidAmount over the items of a sale document; a missing
\* amount counts as nothing.
RECURSIVE SumFinalPaid(_)
SumFinalPaid(items) ==
    IF Len(items) = 0 THEN 0
    ELSE (IF IsNone(Head(items).finalPaidAmount) THEN 0 ELSE Get(Head(items).finalPaidAmount))
         + SumFinalPaid(Tail(items))

Abs(x) == IF x < 0 THEN -x ELSE x

\* C8: every persisted Sale has sum(item.finalPaidAmount) equal to its total
\* within the rounding tolerance of one hundredth per line.
C8_SaleTotalMatchesItems ==
    \A i \in DOMAIN db.sales :
        Abs(SumFinalPaid(db.sales[i].items) - db.sales[i].total) <= Len(db.sales[i].items)

----------------------------------------------------------------------------
(* Discount allocation                                                      *)

\* discountAmount of a sale document, None read as 0.
DiscountOf(sale) == IF IsNone(sale.discountAmount) THEN 0 ELSE Get(sale.discountAmount)

\* C9: for every sale create_sale persists with originalTotal > 0 and
\* 0 < discountAmount <= originalTotal, the lines' finalPaidAmount sum to
\* originalTotal - discountAmount within one hundredth per line.
C9_PaidSumWithinTolerance ==
    \A i \in DOMAIN db.sales :
        LET sale == db.sales[i]
            original_total == OriginalTotal(sale.items)
        IN  (original_total > 0 /\ 0 < DiscountOf(sale) /\ DiscountOf(sale) <= original_total) =>
                /\ \A k \in DOMAIN sale.items : ~IsNone(sale.items[k].finalPaidAmount)
                /\ Abs(SumFinalPaid(sale.items) - (original_total - DiscountOf(sale)))
                       <= Len(sale.items)

\* A discounted sale of several lines is persisted whose finalPaidAmount do
\* not sum to originalTotal - discountAmount exactly.
C9_Witness ==
    \E i \in DOMAIN db.sales :
        LET sale == db.sales[i]
            original_total == OriginalTotal(sale.items)
        IN  /\ Len(sale.items) > 1
            /\ 0 < DiscountOf(sale) /\ DiscountOf(sale) <= original_total
            /\ SumFinalPaid(sale.items) # original_total - DiscountOf(sale)

\* num / den (den > 0) rounded half-up to the hundredth.
RoundHalfUp(num, den) == (2 * num + den) \div (2 * den)

\* v is a hundredth nearest to num / den (den > 0).
Nearest(v, num, den) == 2 * Abs(v * den - num) <= den

\* C10 as stated: with originalTotal > 0 and discountAmount > 0, each line's
\* discountAmount is itemTotal / originalTotal * discountAmount rounded
\* half-up, and its finalPaidAmount is itemTotal less that share rounded
\* half-up.
C10_HalfUp ==
    \A i \in DOMAIN db.sales :
        LET sale == db.sales[i]
            original_total == OriginalTotal(sale.items)
            d == DiscountOf(sale)
        IN  (original_total > 0 /\ d > 0) =>
                \A k \in DOMAIN sale.items :
                    LET item == sale.items[k]
                        item_total == item.price * item.quantity
                    IN  /\ item.discountAmount =
                               Some(RoundHalfUp(item_total * d, original_total))
                        /\ item.finalPaidAmount =
                               Some(RoundHalfUp(item_total * original_total - item_total * d,
                                                original_total))

\* C10, amended: with originalTotal > 0 and discountAmount > 0, each line's
\* itemTotal is price * quantity, its discountAmount is a hundredth nearest
\* to itemTotal / originalTotal * discountAmount and its finalPaidAmount a
\* hundredth nearest to itemTotal less that (unrounded) share; a value exactly
\* half way may be rounded down.
C10_Nearest ==
    \A i \in DOMAIN db.sales :
        LET sale == db.sales[i]
            original_total == OriginalTotal(sale.items)
            d == DiscountOf(sale)
        IN  (original_total > 0 /\ d > 0) =>
                \A k \in DOMAIN sale.items :
                    LET item == sale.items[k]
                        item_total == item.price * item.quantity
                    IN  /\ item.itemTotal = Some(item_total)
                        /\ ~IsNone(item.discountAmount)
                        /\ Nearest(Get(item.discountAmount), item_total * d, original_total)
                        /\ ~IsNone(item.finalPaidAmount)
                        /\ Nearest(Get(item.finalPaidAmount),
                                   item_total * original_total - item_total * d,
                                   original_total)

\* A discounted sale is persisted with a line whose share of the discount is
\* exactly half way between two hundredths and was rounded down.
C10_Witness ==
    \E i \in DOMAIN db.sales :
        LET sale == db.sales[i]
            original_total == OriginalTotal(sale.items)
            d == DiscountOf(sale)
        IN  /\ original_total > 0 /\ d > 0
            /\ \E k \in DOMAIN sale.items :
                  LET item == sale.items[k]
                      item_total == item.price * item.quantity
                  IN  /\ HalfWay(item_total * d, original_total)
                      /\ Get(item.discountAmount) = (item_total * d) \div original_total

----------------------------------------------------------------------------
(* Concurrent stock adjustments                                             *)

\* The quantities the requests of business b sold and returned of product p.
RECURSIVE SoldBy(_, _, _)
SoldBy(rs, b, p) ==
    IF Len(rs) = 0 THEN 0
    ELSE (IF Head(rs).business_id = b THEN SumQty(Head(rs).sold, p) ELSE 0)
         + SoldBy(Tail(rs), b, p)

RECURSIVE ReturnedBy(_, _, _)
ReturnedBy(rs, b, p) ==
    IF Len(rs) = 0 THEN 0
    ELSE (IF Head(rs).business_id = b THEN SumQty(Head(rs).returned, p) ELSE 0)
         + ReturnedBy(Tail(rs), b, p)

\* C7: however the requests were interleaved, once none is in flight every
\* product's stock is its initial stock minus all the quantities sold plus all
\* the quantities returned by the requests of its business.
C7_NoLostStockUpdate ==
    InFlight = {} =>
        \A p \in DOMAIN db.products :
            db.products[p].stock =
                CatalogDb.products[p].stock
                    - SoldBy(reqs, db.products[p].businessId, p)
                    + ReturnedBy(reqs, db.products[p].businessId, p)

\* Three requests have completed, two of them having begun while another
\* was in flight, and at least two of them adjusted the stock of product 1.
C7_Witness ==
    /\ InFlight = {}
    /\ Cardinality({i \in DOMAIN reqs : reqs[i].overlapped}) >= 2
    /\ Cardinality({i \in DOMAIN reqs :
                       /\ reqs[i].business_id = db.products[1].businessId
                       /\ SumQty(reqs[i].sold, 1) + SumQty(reqs[i].returned, 1) > 0}) >= 2
    /\ db.products[1].stock # CatalogDb.products[1].stock

----------------------------------------------------------------------------
(* Returns and exchanges                                                    *)

\* The sale id a create_return or create_exchange request names.
NamedSale(c) ==
    IF c.op = "create_return" THEN c.args.originalSaleId ELSE c.args.original_sale_id

\* C11: create_return and create_exchange answer NotFound (404) whenever the
\* sale they name is absent or another business's, and then change no stock
\* and persist no Return and no Sale.
C11_UnknownSaleNotFound ==
    [][(/\ call'.op \in {"create_return", "create_exchange"}
        /\ ~(/\ NamedSale(call') \in DOMAIN db.sales
             /\ db.sales[NamedSale(call')].businessId = call'.business_id)) =>
          (NotFound(resp') /\ db' = db)]_vars

\* An exchange naming a sale of the other business has been answered 404.
C11_Witness ==
    /\ call.op = "create_exchange"
    /\ NotFound(resp)
    /\ NamedSale(call) \in DOMAIN db.sales
    /\ db.sales[NamedSale(call)].businessId # call.business_id

\* C12: every Return create_return persists has type "return" and no
\* exchangeSaleId, whatever the request body holds, and a stored Return with
\* an exchangeSaleId has type "exchange".
C12_ReturnTypeAndLink ==
    [][/\ (call'.op = "create_return" /\ resp'.status = 200) =>
              /\ Head(resp'.body).type = "return"
              /\ IsNone(Head(resp'.body).exchangeSaleId)
       /\ \A i \in DOMAIN db'.returns :
              ~IsNone(db'.returns[i].exchangeSaleId) => db'.returns[i].type = "exchange"]_vars

\* C13: the Sale create_exchange persists for new_sale has the per-item
\* itemTotal, discountAmount and finalPaidAmount and the originalTotal that
\* create_sale computes for the same request, and the stock is decremented
\* as create_sale decrements it.
C13_ExchangeSettlesLikeSale ==
    [][(call'.op = "create_exchange" /\ resp'.status = 200) =>
          LET new_sale == call'.args.new_sale
              persisted == db'.sales[Head(resp'.body).newSale._id]
              returned == BulkWrite(db.products, call'.business_id,
                                    call'.args.return_items, 1)
          IN  \E ties \in Ties(new_sale) :
                  LET sale_dict == SaleDict(new_sale, call'.business_id, ties)
                  IN  /\ persisted.items = sale_dict.items
                      /\ persisted.originalTotal = sale_dict.originalTotal
                      /\ db'.products = BulkWrite(returned, call'.business_id,
                                                  sale_dict.items, -1)]_vars

\* The place of a step in the order C14 states: the increments of the
\* returned items, the decrements of the new sale's items, the Sale, the Return.
Rank(step) ==
    CASE step.kind = "update_one" /\ step.delta > 0 -> 1
      [] step.kind = "update_one" -> 2
      [] step.kind = "sales" -> 3
      [] OTHER -> 4

\* C14: every step a create_exchange takes comes before all it has left to
\* do in the order increments, decrements, Sale, Return; and the Return it
\* persists last has type "exchange" and an exchangeSaleId naming a Sale of
\* the same business that was persisted before it.
C14_ExchangeStepOrder ==
    [][\A i \in DOMAIN reqs :
          (reqs[i].op = "create_exchange" /\ reqs'[i].todo # reqs[i].todo) =>
              LET step == Head(reqs[i].todo)
                  rest == reqs'[i].todo
                  return_dict == db'.returns[NextId(db.returns)]
              IN  /\ Len(rest) = Len(reqs[i].todo) - 1
                  /\ \A k \in DOMAIN rest : Rank(step) <= Rank(rest[k])
                  /\ step.kind = "returns" =>
                        /\ rest = << >>
                        /\ return_dict.type = "exchange"
                        /\ ~IsNone(return_dict.exchangeSaleId)
                        /\ Get(return_dict.exchangeSaleId) \in DOMAIN db.sales
                        /\ db.sales[Get(return_dict.exchangeSaleId)].businessId
                               = return_dict.businessId]_vars

\* An exchange that began while another request was in flight has taken all
\* its steps, and the Return it persisted names a Sale that is not the last
\* one persisted.
C14_Witness ==
    \E i \in DOMAIN reqs, r \in DOMAIN db.returns :
        /\ reqs[i].op = "create_exchange" /\ reqs[i].todo = << >> /\ reqs[i].overlapped
        /\ db.returns[r].type = "exchange"
        /\ Get(db.returns[r].exchangeSaleId) < Cardinality(DOMAIN db.sales)

\* The sum of price * quantity over the lines of items.
RECURSIVE SumPriceQty(_)
SumPriceQty(items) ==
    IF Len(items) = 0 THEN 0
    ELSE Head(items).price * Head(items).quantity + SumPriceQty(Tail(items))

\* C15: a successful create_exchange answers priceDifference = new_sale.total
\* - returnTotal with returnTotal the sum of price * quantity over the return
\* items, stores that returnTotal in the Return it persists, and stores
\* priceDifference in neither the Return nor the Sale.
C15_PriceDifference ==
    [][(call'.op = "create_exchange" /\ resp'.status = 200) =>
          LET body == Head(resp'.body)
              return_total == SumPriceQty(call'.args.return_items)
          IN  /\ body.returnTotal = return_total
              /\ body.priceDifference = call'.args.new_sale.total - return_total
              /\ db'.returns[body.return._id].returnTotal = return_total
              /\ "priceDifference" \notin DOMAIN db'.returns[body.return._id]
              /\ "priceDifference" \notin DOMAIN db'.sales[body.newSale._id]]_vars

\* An exchange of two units bought at a discount for a cheaper sale has been
\* answered with a refund.
C15_Witness ==
    /\ call.op = "create_exchange"
    /\ resp.status = 200
    /\ \E k \in DOMAIN call.args.return_items :
          /\ ~IsNone(call.args.return_items[k].finalPaidPrice)
          /\ call.args.return_items[k].quantity = 2
    /\ Head(resp.body).priceDifference < 0

\* C16: every stored Return carries as originalPaymentMethod the
\* paymentMethod of the Sale its originalSaleId names, and no operation
\* changes a Return once it is stored.
C16_OriginalPaymentMethodCopied ==
    [][/\ \A i \in DOMAIN db'.returns :
              /\ db'.returns[i].originalSaleId \in DOMAIN db'.sales
              /\ db'.returns[i].originalPaymentMethod
                     = db'.sales[db'.returns[i].originalSaleId].paymentMethod
       /\ \A i \in DOMAIN db.returns :
              i \in DOMAIN db'.returns /\ db'.returns[i] = db.returns[i]]_vars

\* A return of a sale paid by "Cash" is stored with that spelling, and a day
\* and a summary later it is still there.
C16_Witness ==
    /\ call.op = "get_sales_summary"
    /\ \E i \in DOMAIN db.returns :
          /\ db.returns[i].originalPaymentMethod = Str_Cash
          /\ db.returns[i].date < today

----------------------------------------------------------------------------
(* Reporting                                                                *)

\* The sales and the returns of the caller's business dated within the range
\* of the summary request c.
SalesInRange(c) ==
    {i \in DOMAIN db.sales :
        /\ db.sales[i].businessId = c.business_id
        /\ c.args.start_date <= db.sales[i].date /\ db.sales[i].date <= c.args.end_date}
ReturnsInRange(c) ==
    {i \in DOMAIN db.returns :
        /\ db.returns[i].businessId = c.business_id
        /\ c.args.start_date <= db.returns[i].date /\ db.returns[i].date <= c.args.end_date}

RECURSIVE SumTotal(_, _, _)
SumTotal(coll, ids, field) ==
    IF ids = {} THEN 0
    ELSE LET i == CHOOSE j \in ids : TRUE
         IN  coll[i][field] + SumTotal(coll, ids \ {i}, field)

\* Sales less returns of the methods that, ignoring case, are in methods.
NetOf(c, methods) ==
    SumTotal(db.sales, {i \in SalesInRange(c) : Lower(db.sales[i].paymentMethod) \in methods},
             "total")
    - SumTotal(db.returns,
               {i \in ReturnsInRange(c) :
                   Lower(db.returns[i].originalPaymentMethod) \in methods},
               "returnTotal")

KnownMethods == {Str_cash, Str_upi, Str_card, Str_credit}

\* C17: the summary's total for each of cash, upi, card and credit is the
\* sum of the in-range sales of the business paid by that method, whatever
\* its case, less the in-range returns of sales paid by it; every other
\* method counts in otherTotal.
C17_PerMethodTotals ==
    (call.op = "get_sales_summary" /\ resp.status = 200) =>
        LET summary == Head(resp.body)
            methods == {Lower(db.sales[i].paymentMethod) : i \in SalesInRange(call)}
                       \cup {Lower(db.returns[i].originalPaymentMethod) :
                                i \in ReturnsInRange(call)}
        IN  /\ summary.cashTotal = NetOf(call, {Str_cash})
            /\ summary.upiTotal = NetOf(call, {Str_upi})
            /\ summary.cardTotal = NetOf(call, {Str_card})
            /\ summary.creditTotal = NetOf(call, {Str_credit})
            /\ summary.otherTotal = NetOf(call, methods \ KnownMethods)

----------------------------------------------------------------------------
(* Signup                                                                   *)

\* C19: a signup that finds its username in use fails and creates no
\* Business, User or Settings row, and, however signups are interleaved, no
\* two User rows share a username.
C19_UsernameUnique ==
    [][/\ (call'.op = "signup" /\ call' # call /\ FindUser(call'.args.username) # {}) =>
              (resp'.status # 200 /\ db' = db /\ reqs' = reqs)
       /\ \A i, j \in DOMAIN db'.users :
              db'.users[i].username = db'.users[j].username => i = j]_vars

\* C20: in every state each Business has a User linked to it, and each User
\* has the Settings row of its business, with setupCompleted false as long
\* as no setup has run.
C20_SignupAtomic ==
    /\ \A b \in DOMAIN db.businesses :
           \E u \in DOMAIN db.users : db.users[u].businessId = b
    /\ \A u \in DOMAIN db.users :
           \E s \in DOMAIN db.settings :
               /\ db.settings[s].businessId = db.users[u].businessId
               /\ ~db.settings[s].setupCompleted

----------------------------------------------------------------------------
(* Shop setup                                                               *)

\* The Settings rows of business b in the collection settings.
SettingsOf(settings, b) == {i \in DOMAIN settings : settings[i].businessId = b}

\* C21: after any sequence of signup and setup calls each business has
\* exactly one Settings row, and a setup call inserts no row: it updates the
\* row of the caller's business and leaves it with setupCompleted true.
C21_SetupUpsert ==
    [][/\ \A b \in DOMAIN db'.businesses : Cardinality(SettingsOf(db'.settings, b)) = 1
       /\ call'.op = "create_setup" =>
              /\ resp'.status = 200
              /\ DOMAIN db'.settings = DOMAIN db.settings
              /\ \A i \in SettingsOf(db'.settings, call'.business_id) :
                     db'.settings[i].setupCompleted]_vars

\* C22: the stored setupCompleted does not depend on the setupCompleted of
\* the request body: two setup calls that differ only in it store the same
\* value, which is true, and an update leaves the stored value as it was.
C22_SetupCompletedNotClientSettable ==
    [][/\ call'.op = "create_setup" =>
              \A i \in SettingsOf(db'.settings, call'.business_id) :
                  db'.settings[i].setupCompleted = TRUE
       /\ (call'.op = "update_settings" /\ resp'.status = 200) =>
              db'.settings[call'.args.settings_id].setupCompleted
                  = db.settings[call'.args.settings_id].setupCompleted]_vars

\* C23: a setup call for a business whose setup is already completed is
\* answered with a 400-class error and leaves the stored settings unchanged.
C23_DuplicateSetupRejected ==
    [][(/\ call'.op = "create_setup"
        /\ \E i \in SettingsOf(db.settings, call'.business_id) :
               db.settings[i].setupCompleted) =>
          (resp'.status \in 400..499 /\ db'.settings = db.settings)]_vars

----------------------------------------------------------------------------
(* Sales once persisted                                                     *)

\* C24: no operation of any business changes a field of a persisted Sale or
\* removes it from the store.
C24_SaleImmutable ==
    [][\A i \in DOMAIN db.sales :
          i \in DOMAIN db'.sales /\ db'.sales[i] = db.sales[i]]_vars

\* A product has been deleted after it was sold: the Sale naming it is still
\* in the store.
C24_Witness ==
    /\ call.op = "delete_product"
    /\ resp.status = 200
    /\ \E i \in DOMAIN db.sales :
          /\ db.sales[i].businessId = call.business_id
          /\ db.sales[i].items[1].productId = call.args
          /\ call.args \notin DOMAIN db.products

----------------------------------------------------------------------------
(* Forgot-password                                                          *)

\* C25: forgot_password answers with the same success response whether or
\* not the username exists, writes a notification addressed to the operator
\* exactly when the username matches a stored user, and changes no stored
\* record.
C25_ForgotPasswordSilent ==
    [][call'.op = "forgot_password" =>
          LET username == call'.args.username
              matches == \E i \in DOMAIN db.users : db.users[i].username = username
          IN  /\ resp' = Ok(<<[message |-> "Password reset request sent to admin."]>>)
              /\ db' = db
              /\ IF matches
                 THEN /\ Len(log') = Len(log) + 1
                      /\ SubSeq(log', 1, Len(log)) = log
                      /\ log'[Len(log')].to_email = ADMIN_EMAIL
                      /\ log'[Len(log')].body.username = username
                 ELSE log' = log]_vars

\* An unknown username was asked for after a known one: the answer is the
\* success response and the only notifications are those of known users.
C25_Witness ==
    /\ call.op = "forgot_password"
    /\ \A i \in DOMAIN db.users : db.users[i].username # call.args.username
    /\ resp.status = 200
    /\ log # << >>
    /\ \A k \in DOMAIN log :
          \E i \in DOMAIN db.users : db.users[i].username = log[k].body.username

----------------------------------------------------------------------------
(* Store failures during create_sale                                        *)

\* The quantity of product p that the update_one steps of a list would take
\* from the stock.
RECURSIVE Pending(_, _)
Pending(steps, p) ==
    IF Len(steps) = 0 THEN 0
    ELSE (IF Head(steps).kind = "update_one" /\ Head(steps).product_id = p
          THEN 0 - Head(steps).delta ELSE 0)
         + Pending(Tail(steps), p)

\* The quantity of product p that the requests of business b have had taken
\* from the stock so far.
RECURSIVE Decremented(_, _, _)
Decremented(rs, b, p) ==
    IF Len(rs) = 0 THEN 0
    ELSE (IF Head(rs).business_id = b
          THEN SumQty(Head(rs).sold, p) - Pending(Head(rs).todo \o Head(rs).raised, p)
          ELSE 0)
         + Decremented(Tail(rs), b, p)

\* The create_sale requests that went through all their awaits.
Completed == {i \in DOMAIN reqs : reqs[i].todo = << >> /\ reqs[i].raised = << >>}

\* C26: create_sale decrements the stock before it stores the Sale and never
\* compensates: every decrement the store applied stays applied, also those of
\* a request at which the store raised afterwards, and the stored Sales are
\* exactly those of the requests that went through all their awaits.
C26_NoCompensation ==
    /\ \A p \in DOMAIN db.products :
          db.products[p].stock =
              CatalogDb.products[p].stock - Decremented(reqs, db.products[p].businessId, p)
    /\ Cardinality(DOMAIN db.sales) = Cardinality(Completed)
    /\ \A i \in DOMAIN reqs :
          reqs[i].todo # << >> /\ Head(reqs[i].todo).kind = "sales" =>
              \A p \in DOMAIN db.products : Pending(reqs[i].todo, p) = 0

\* Nothing is in flight, no Sale is stored, and the stock of product 1 is
\* reduced: one request was left by the store at its insert_one after the
\* whole batch, another inside its batch.
C26_Witness ==
    /\ InFlight = {}
    /\ DOMAIN db.sales = {}
    /\ db.products[1].stock < CatalogDb.products[1].stock
    /\ \E i \in DOMAIN reqs :
          /\ Len(reqs[i].raised) = 1
          /\ reqs[i].business_id = 1
    /\ \E j \in DOMAIN reqs :
          /\ Len(reqs[j].raised) = 2
          /\ reqs[j].business_id = 1
          /\ Len(reqs[j].sold) = 2

----------------------------------------------------------------------------
(* Stock conservation                                                       *)

\* The quantity of product p on the lines of the documents of collection
\* coll that carry businessId b.
RECURSIVE LinesOf(_, _, _, _)
LinesOf(coll, ids, b, p) ==
    IF ids = {} THEN 0
    ELSE LET i == CHOOSE j \in ids : TRUE
         IN  (IF coll[i].businessId = b THEN SumQty(coll[i].items, p) ELSE 0)
             + LinesOf(coll, ids \ {i}, b, p)

----------------------------------------------------------------------------
(* Returns against a sale                                                   *)

\* The quantity of product p on the lines of the stored Returns that name
\* sale s.
RECURSIVE ReturnedOf(_, _, _)
ReturnedOf(ids, s, p) ==
    IF ids = {} THEN 0
    ELSE LET i == CHOOSE j \in ids : TRUE
         IN  (IF db.returns[i].originalSaleId = s THEN SumQty(db.returns[i].items, p) ELSE 0)
             + ReturnedOf(ids \ {i}, s, p)

\* C28: for every stored Sale and every product, the quantity of the product
\* on all stored Returns naming the sale never exceeds the quantity of the
\* product sold in the sale.
C28_ReturnsBoundedBySale ==
    \A s \in DOMAIN db.sales : \A p \in 1..3 :
        ReturnedOf(DOMAIN db.returns, s, p) <= SumQty(db.sales[s].items, p)

----------------------------------------------------------------------------
(* Reconciliation of the summary                                            *)

\* C29: in every summary, cashTotal + upiTotal + cardTotal + creditTotal +
\* otherTotal equals netSales, also when a return's originalPaymentMethod has
\* no sale within the range.
C29_BreakdownReconciles ==
    (call.op = "get_sales_summary" /\ resp.status = 200) =>
        LET summary == Head(resp.body)
        IN  summary.cashTotal + summary.upiTotal + summary.cardTotal
                + summary.creditTotal + summary.otherTotal = summary.netSales

----------------------------------------------------------------------------
(* Line amounts                                                             *)

\* C30: on every line of every Sale stored by create_sale, discountAmount
\* plus finalPaidAmount equals itemTotal to the cent, for every cart and
\* discount.
C30_LineAmountsAddUp ==
    \A i \in DOMAIN db.sales : \A k \in DOMAIN db.sales[i].items :
        LET item == db.sales[i].items[k]
        IN  Get(item.discountAmount) + Get(item.finalPaidAmount) = Get(item.itemTotal)

====
